---- MODULE Spec2Model ----
(***************************************************************************)
(* Model of the survey storage API of routers/surveys.py: the request      *)
(* handlers create_survey, update_survey, get_survey, get_survey_version,  *)
(* delete_survey and clear_all_surveys running against the "surveys"       *)
(* collection of the document store.  A handler is a sequence of atomic    *)
(* steps, one per awaited store call; the synchronous code between two     *)
(* awaits belongs to the step of the store call that follows it.           *)
(* The store is connected (connect_to_mongo succeeded), so the indexes of  *)
(* database.py exist.                                                      *)
(***************************************************************************)
EXTENDS Integers, Sequences, FiniteSets, Bags, TLC

(***************************************************************************)
(* Bounds of the model.                                                    *)
(***************************************************************************)
MaxTime == 1          \* datetime.utcnow() returns a value of 0..MaxTime
GenIdHi == 1001       \* generated ids are drawn from GenIdLo..GenIdHi

(***************************************************************************)
(* Program constants.                                                      *)
(***************************************************************************)
GenIdLo == 1000
HTTP_200_OK == 200
HTTP_201_CREATED == 201
HTTP_400_BAD_REQUEST == 400
HTTP_404_NOT_FOUND == 404
HTTP_500_INTERNAL_SERVER_ERROR == 500

Procs == {1, 2}

\* Python's None for an optional string.
NoneStr == "<None>"

(***************************************************************************)
(* Identifier generator.                                                   *)
(***************************************************************************)
\* generate_survey_id: str(random.randint(1000, 9999)); the set of its
\* possible results.
generate_survey_id == {ToString(n) : n \in GenIdLo..GenIdHi}

\* f"{x}" of a submitted version value: an int prints in decimal, a float
\* with zero fraction prints with ".0", a string prints as itself, a bool
\* prints True/False.
FormatValue(raw) ==
    CASE raw.kind = "int"   -> ToString(raw.n)
      [] raw.kind = "float" -> ToString(raw.n) \o ".0"
      [] raw.kind = "str"   -> ToString(raw.n)
      [] raw.kind = "bool"  -> IF raw.n = 1 THEN "True" ELSE "False"
      [] OTHER              -> "x"

\* generate_version_id(survey_id, v["version"]): formats the submitted
\* value, not the coerced integer.
generate_version_id(survey_id, raw) ==
    survey_id \o "v" \o FormatValue(raw)

(***************************************************************************)
(* Version translation (the StoredVersion(...) construction).              *)
(***************************************************************************)
\* StoredVersion.version: int -- the values pydantic coerces to an integer.
VersionAccepted(raw) == raw.kind \in {"int", "float", "str", "bool"}

CoerceInt(raw) == raw.n

\* SurveyConfig(**v["config"]): sections is required, title is optional,
\* unknown keys are ignored.
ConfigAccepted(cfg) == cfg.kind = "dict" /\ cfg.sections # "missing"

SurveyConfig(cfg) ==
    [title |-> cfg.title, sections |-> cfg.sections]

\* datetime.fromisoformat(ts.replace("Z", "+00:00")) for a string.
\* A trailing Z gives an aware UTC datetime, no offset a naive one.
TimestampAccepted(ts) == ts.kind \in {"strZ", "str"}

ParseTimestamp(ts) ==
    [t |-> ts.t, tz |-> IF ts.kind = "strZ" THEN "utc" ELSE "naive"]

\* One submitted version is translatable.
Translatable(v) ==
    /\ VersionAccepted(v.version)
    /\ ConfigAccepted(v.config)
    /\ TimestampAccepted(v.timestamp)

StoredVersion(survey_id, v) ==
    [version   |-> CoerceInt(v.version),
     versionId |-> generate_version_id(survey_id, v.version),
     config    |-> SurveyConfig(v.config),
     prompt    |-> v.prompt,
     timestamp |-> ParseTimestamp(v.timestamp)]

\* Variant: only the first entry is validated.
TranslateOkFirst(versions) ==
    Len(versions) = 0 \/ Translatable(versions[1])

\* The loop over request.versions raises at the first entry that fails.
TranslateOk(versions) ==
    \A i \in 1..Len(versions) : Translatable(versions[i])

\* Variant: a later entry whose version number was already seen is dropped.
TranslateVersionsDedup(survey_id, versions) ==
    LET RECURSIVE Keep(_)
        Keep(i) ==
            IF i > Len(versions) THEN <<>>
            ELSE IF \E j \in 1..(i - 1) :
                       CoerceInt(versions[j].version) = CoerceInt(versions[i].version)
                 THEN Keep(i + 1)
                 ELSE <<StoredVersion(survey_id, versions[i])>> \o Keep(i + 1)
    IN  Keep(1)

TranslateVersions(survey_id, versions) ==
    [i \in 1..Len(versions) |-> StoredVersion(survey_id, versions[i])]

(***************************************************************************)
(* The store: model_dump and the BSON round trip.                          *)
(***************************************************************************)
\* BSON keeps the instant of a datetime (UTC), not its tzinfo.
DumpVersion(sv) == [sv EXCEPT !.timestamp = sv.timestamp.t]

\* StoredSurvey(**doc) on a document read back: datetimes come back naive.
LoadVersion(bv) == [bv EXCEPT !.timestamp = [t |-> bv.timestamp, tz |-> "naive"]]

\* survey.model_dump(by_alias=True, exclude={"id"})
model_dump(survey) ==
    [surveyId  |-> survey.surveyId,
     createdAt |-> survey.createdAt,
     versions  |-> [i \in 1..Len(survey.versions) |-> DumpVersion(survey.versions[i])]]

\* survey_doc.pop("_id", None); StoredSurvey(**survey_doc)
LoadSurvey(doc) ==
    [surveyId  |-> doc.surveyId,
     createdAt |-> doc.createdAt,
     versions  |-> [i \in 1..Len(doc.versions) |-> LoadVersion(doc.versions[i])]]

\* StoredSurvey(surveyId=..., createdAt=..., versions=...)
StoredSurvey(survey_id, created_at, stored_versions) ==
    [surveyId |-> survey_id, createdAt |-> created_at, versions |-> stored_versions]

\* The documents of a collection (a bag) that match {"surveyId": sid}.
Matching(coll, sid) == {d \in BagToSet(coll) : d.surveyId = sid}

\* Number of documents of a collection with the given surveyId.
CountOf(coll, sid) ==
    LET ds == Matching(coll, sid)
        RECURSIVE Sum(_)
        Sum(S) == IF S = {} THEN 0
                  ELSE LET d == CHOOSE x \in S : TRUE
                       IN  CopiesIn(d, coll) + Sum(S \ {d})
    IN  Sum(ds)

\* One copy of document d removed / added.
RemoveDoc(coll, d) == coll (-) SetToBag({d})
AddDoc(coll, d) == coll (+) SetToBag({d})

\* Variant: the index is not unique.
UniqueIndexOff == FALSE

\* create_index("surveyId", unique=True)
UniqueIndex == TRUE

(***************************************************************************)
(* Inputs.                                                                 *)
(***************************************************************************)
Times == 0..MaxTime

SuppliedIds == {"1000"}
AllIds == SuppliedIds \cup generate_survey_id
\* A supplied id with letters, used by the search handler's requests.
LetterId == "Ab10"
\* Every id a document of the model can have.
KnownIds == AllIds \cup {LetterId}

RawVersion(vk, n, ck, title, sections, extra, prompt, tk, t) ==
    [version   |-> [kind |-> vk, n |-> n],
     config    |-> [kind |-> ck, title |-> title, sections |-> sections, extra |-> extra],
     prompt    |-> prompt,
     timestamp |-> [kind |-> tk, t |-> t]]

\* version 1, title A
rvA == RawVersion("int", 1, "dict", "A", "none", FALSE, NoneStr, "strZ", 0)
\* version 1.0 (a JSON float), title B, with a prompt
rvB == RawVersion("float", 1, "dict", "B", "one", FALSE, "p", "str", 1)
\* version 2, no title, an unknown config key
rvC == RawVersion("int", 2, "dict", NoneStr, "none", TRUE, NoneStr, "strZ", 1)
\* no timestamp key
rvNoTs == RawVersion("int", 1, "dict", "A", "none", FALSE, NoneStr, "missing", 0)
\* config without sections
rvBadCfg == RawVersion("int", 2, "dict", "A", "missing", FALSE, NoneStr, "strZ", 0)
\* version not an integer
rvBadVer == RawVersion("bad", 0, "dict", "A", "none", FALSE, NoneStr, "strZ", 0)

VersionLists ==
    { <<>>, <<rvA>>, <<rvC, rvA, rvB>>,
      <<rvNoTs>>, <<rvA, rvBadCfg>>, <<rvBadVer, rvA>> }

\* request.surveyId of a create: a supplied id, None or the empty string
CreateIds == SuppliedIds \cup {NoneStr, ""}

\* The smaller inputs of the two-slot specification.
ConcVersionLists == { <<rvA>>, <<rvC, rvA>> }
ConcCreateIds == SuppliedIds \cup {NoneStr}
ConcVersionNumbers == {1}
ConcGenIds == {ToString(GenIdLo)}

VersionNumbers == {1, 2}

(***************************************************************************)
(* State.                                                                  *)
(***************************************************************************)
VARIABLES
    surveys,    \* the "surveys" collection: a bag of documents
    pc,         \* pc[p]: where request slot p is in its handler
    req,        \* req[p]: the request being served
    loc,        \* loc[p]: the handler's local variables
    resp,       \* resp[p]: the response sent
    lastWrite,  \* lastWrite[sid]: the last write applied to the document of sid
    responses,  \* the "responses" collection, in insertion order
    issued      \* number of uuid4() values handed out so far

vars == <<surveys, pc, req, loc, resp, lastWrite, responses, issued>>

\* The state of the responses side, which the survey handlers leave alone.
respVars == <<responses, issued>>

NoReq == [op |-> "none", surveyId |-> NoneStr, versions |-> <<>>, version |-> 0]
NoWrite == [op |-> "none", createdAt |-> 0 - 1]
NoLoc == [survey_id |-> NoneStr, found |-> FALSE, created_at |-> 0 - 1,
          matched |-> 0 - 1, prev |-> NoWrite]
NoResp == [status |-> 0, detail |-> "", survey |-> <<>>, version |-> <<>>, data |-> <<>>]

Init ==
    /\ surveys = EmptyBag
    /\ pc = [p \in Procs |-> "idle"]
    /\ req = [p \in Procs |-> NoReq]
    /\ loc = [p \in Procs |-> NoLoc]
    /\ resp = [p \in Procs |-> NoResp]
    /\ lastWrite = [sid \in KnownIds |-> NoWrite]
    /\ responses = <<>>
    /\ issued = 0

\* The handler of slot p returns a response.
Reply(p, status, detail, survey, version) ==
    /\ pc' = [pc EXCEPT ![p] = "done"]
    /\ resp' = [resp EXCEPT ![p] = [status |-> status, detail |-> detail,
                                    survey |-> survey, version |-> version,
                                    data |-> <<>>]]

\* The handler of slot p returns a response whose body is data.
ReplyData(p, status, detail, data) ==
    /\ pc' = [pc EXCEPT ![p] = "done"]
    /\ resp' = [resp EXCEPT ![p] = [status |-> status, detail |-> detail,
                                    survey |-> <<>>, version |-> <<>>,
                                    data |-> data]]

\* Slot p has written the document of sid: the write is recorded, and the
\* slot remembers which write preceded its own.
Written(p, sid, op, created_at, matched) ==
    /\ loc' = [loc EXCEPT ![p].matched = matched, ![p].prev = lastWrite[sid]]
    /\ lastWrite' = [lastWrite EXCEPT ![sid] = [op |-> op, createdAt |-> created_at]]

\* Python truthiness of an optional string: None and "" are falsy.
Falsy(str) == str = NoneStr \/ str = ""

(***************************************************************************)
(* create_survey                                                           *)
(***************************************************************************)
\* A POST / request arrives (line 48: survey_id = request.surveyId).
create_arrive(p, ids, lists) ==
    /\ pc[p] = "idle"
    /\ \E sid \in ids, vs \in lists :
          /\ req' = [req EXCEPT ![p] = [op |-> "create", surveyId |-> sid,
                                        versions |-> vs, version |-> 0]]
          /\ loc' = [loc EXCEPT ![p] = [NoLoc EXCEPT !.survey_id = sid]]
          /\ pc' = [pc EXCEPT ![p] = IF Falsy(sid) THEN "gen" ELSE "check"]
    /\ UNCHANGED <<surveys, resp, lastWrite>>
    /\ UNCHANGED respVars

\* Variant: the generated id is used without looking it up.
create_generate_nocheck(p, gens) ==
    /\ pc[p] = "gen"
    /\ req[p].op = "create"
    /\ \E g \in gens :
          /\ loc' = [loc EXCEPT ![p].survey_id = g]
          /\ pc' = [pc EXCEPT ![p] = "check"]
    /\ UNCHANGED <<surveys, req, resp, lastWrite>>
    /\ UNCHANGED respVars

\* One iteration of the loop of lines 51-55: generate an id and look it up.
create_generate(p, gens) ==
    /\ pc[p] = "gen"
    /\ req[p].op = "create"
    /\ \E g \in gens :
          /\ loc' = [loc EXCEPT ![p].survey_id = g]
          /\ pc' = [pc EXCEPT ![p] = IF Matching(surveys, g) = {} THEN "check" ELSE "gen"]
    /\ UNCHANGED <<surveys, req, resp, lastWrite>>
    /\ UNCHANGED respVars

\* Variant: created_at is always taken from the clock.
create_find_fresh(p) ==
    /\ pc[p] = "check"
    /\ req[p].op = "create"
    /\ \E now \in Times :
          loc' = [loc EXCEPT ![p].found = Matching(surveys, loc[p].survey_id) # {},
                             ![p].created_at = now]
    /\ pc' = [pc EXCEPT ![p] = "write"]
    /\ UNCHANGED <<surveys, req, resp, lastWrite>>
    /\ UNCHANGED respVars

\* Lines 58-59: find_one, then created_at from the document found or from
\* datetime.utcnow().
create_find(p) ==
    /\ pc[p] = "check"
    /\ req[p].op = "create"
    /\ LET ds == Matching(surveys, loc[p].survey_id)
       IN  IF ds = {}
           THEN \E now \in Times :
                   loc' = [loc EXCEPT ![p].found = FALSE, ![p].created_at = now]
           ELSE \E d \in ds :
                   loc' = [loc EXCEPT ![p].found = TRUE, ![p].created_at = d.createdAt]
    /\ pc' = [pc EXCEPT ![p] = "write"]
    /\ UNCHANGED <<surveys, req, resp, lastWrite>>
    /\ UNCHANGED respVars

\* Lines 61-93: translate the versions, build the survey, replace_one with
\* upsert=True.  When no document matches, the store goes on to insert.
create_replace(p) ==
    /\ pc[p] = "write"
    /\ req[p].op = "create"
    /\ IF ~TranslateOk(req[p].versions)
       THEN /\ Reply(p, HTTP_500_INTERNAL_SERVER_ERROR, "error", <<>>, <<>>)
            /\ UNCHANGED <<surveys, loc, lastWrite>>
       ELSE LET sid == loc[p].survey_id
                survey == StoredSurvey(sid, loc[p].created_at,
                                       TranslateVersions(sid, req[p].versions))
                ds == Matching(surveys, sid)
            IN  IF ds = {}
                THEN /\ pc' = [pc EXCEPT ![p] = "insert"]
                     /\ UNCHANGED <<surveys, loc, resp, lastWrite>>
                ELSE /\ \E d \in ds :
                           surveys' = AddDoc(RemoveDoc(surveys, d), model_dump(survey))
                     /\ Written(p, sid, "create", survey.createdAt, 1)
                     /\ Reply(p, HTTP_201_CREATED, "", <<survey>>, <<>>)
    /\ UNCHANGED req
    /\ UNCHANGED respVars

\* Variant: a duplicate key is swallowed and the request reports success
\* without writing.
create_insert_keep(p) ==
    /\ pc[p] = "insert"
    /\ req[p].op = "create"
    /\ LET sid == loc[p].survey_id
           survey == StoredSurvey(sid, loc[p].created_at,
                                  TranslateVersions(sid, req[p].versions))
           ds == Matching(surveys, sid)
       IN  IF ds = {}
           THEN /\ surveys' = AddDoc(surveys, model_dump(survey))
                /\ Written(p, sid, "create", survey.createdAt, 0)
                /\ Reply(p, HTTP_201_CREATED, "", <<survey>>, <<>>)
           ELSE /\ Reply(p, HTTP_201_CREATED, "", <<survey>>, <<>>)
                /\ UNCHANGED <<surveys, loc, lastWrite>>
    /\ UNCHANGED req
    /\ UNCHANGED respVars

\* The insert half of the upsert.  With the unique index a document that
\* appeared meanwhile makes the insert fail with a duplicate key, which the
\* store either reports (500) or retries as a replace.
create_insert(p) ==
    /\ pc[p] = "insert"
    /\ req[p].op = "create"
    /\ LET sid == loc[p].survey_id
           survey == StoredSurvey(sid, loc[p].created_at,
                                  TranslateVersions(sid, req[p].versions))
           ds == Matching(surveys, sid)
       IN  IF ds = {} \/ ~UniqueIndex
           THEN /\ surveys' = AddDoc(surveys, model_dump(survey))
                /\ Written(p, sid, "create", survey.createdAt, 0)
                /\ Reply(p, HTTP_201_CREATED, "", <<survey>>, <<>>)
           ELSE \/ /\ Reply(p, HTTP_500_INTERNAL_SERVER_ERROR, "error", <<>>, <<>>)
                   /\ UNCHANGED <<surveys, loc, lastWrite>>
                \/ /\ \E d \in ds :
                         surveys' = AddDoc(RemoveDoc(surveys, d), model_dump(survey))
                   /\ Written(p, sid, "create", survey.createdAt, 1)
                   /\ Reply(p, HTTP_201_CREATED, "", <<survey>>, <<>>)
    /\ UNCHANGED req
    /\ UNCHANGED respVars

(***************************************************************************)
(* update_survey                                                           *)
(***************************************************************************)
\* A PUT /{survey_id} request arrives.
update_arrive(p, ids, lists) ==
    /\ pc[p] = "idle"
    /\ \E sid \in ids, vs \in lists :
          /\ req' = [req EXCEPT ![p] = [op |-> "update", surveyId |-> sid,
                                        versions |-> vs, version |-> 0]]
          /\ loc' = [loc EXCEPT ![p] = [NoLoc EXCEPT !.survey_id = sid]]
    /\ pc' = [pc EXCEPT ![p] = "check"]
    /\ UNCHANGED <<surveys, resp, lastWrite>>
    /\ UNCHANGED respVars

\* Variant: the existence check is skipped.
update_find_nocheck(p) ==
    /\ pc[p] = "check"
    /\ req[p].op = "update"
    /\ \E now \in Times :
          loc' = [loc EXCEPT ![p].found = TRUE, ![p].created_at = now]
    /\ pc' = [pc EXCEPT ![p] = "write"]
    /\ UNCHANGED <<surveys, req, resp, lastWrite>>
    /\ UNCHANGED respVars

\* Variant: the update stamps the document with the current time.
update_find_fresh(p) ==
    /\ pc[p] = "check"
    /\ req[p].op = "update"
    /\ LET ds == Matching(surveys, loc[p].survey_id)
       IN  IF ds = {}
           THEN /\ Reply(p, HTTP_404_NOT_FOUND, "survey_not_found", <<>>, <<>>)
                /\ UNCHANGED loc
           ELSE /\ \E now \in Times :
                      loc' = [loc EXCEPT ![p].found = TRUE, ![p].created_at = now]
                /\ pc' = [pc EXCEPT ![p] = "write"]
                /\ UNCHANGED resp
    /\ UNCHANGED <<surveys, req, lastWrite>>
    /\ UNCHANGED respVars

\* Lines 110-116: the existence check.
update_find(p) ==
    /\ pc[p] = "check"
    /\ req[p].op = "update"
    /\ LET ds == Matching(surveys, loc[p].survey_id)
       IN  IF ds = {}
           THEN /\ Reply(p, HTTP_404_NOT_FOUND, "survey_not_found", <<>>, <<>>)
                /\ UNCHANGED loc
           ELSE /\ \E d \in ds :
                      loc' = [loc EXCEPT ![p].found = TRUE, ![p].created_at = d.createdAt]
                /\ pc' = [pc EXCEPT ![p] = "write"]
                /\ UNCHANGED resp
    /\ UNCHANGED <<surveys, req, lastWrite>>
    /\ UNCHANGED respVars

\* Lines 118-148: translate, build the survey, replace_one without upsert;
\* the result of replace_one is not looked at.
update_replace(p) ==
    /\ pc[p] = "write"
    /\ req[p].op = "update"
    /\ IF ~TranslateOk(req[p].versions)
       THEN /\ Reply(p, HTTP_500_INTERNAL_SERVER_ERROR, "error", <<>>, <<>>)
            /\ UNCHANGED <<surveys, loc, lastWrite>>
       ELSE LET sid == loc[p].survey_id
                survey == StoredSurvey(sid, loc[p].created_at,
                                       TranslateVersions(sid, req[p].versions))
                ds == Matching(surveys, sid)
            IN  /\ IF ds = {}
                   THEN /\ UNCHANGED <<surveys, lastWrite>>
                        /\ loc' = [loc EXCEPT ![p].matched = 0]
                   ELSE /\ \E d \in ds :
                              surveys' = AddDoc(RemoveDoc(surveys, d), model_dump(survey))
                        /\ Written(p, sid, "update", survey.createdAt, 1)
                /\ Reply(p, HTTP_200_OK, "", <<survey>>, <<>>)
    /\ UNCHANGED req
    /\ UNCHANGED respVars

(***************************************************************************)
(* get_survey, get_survey_version                                          *)
(***************************************************************************)
\* The possible outcomes of get_survey(sid) on a collection.
GetSurvey(coll, sid) ==
    IF Matching(coll, sid) = {}
    THEN {[status |-> HTTP_404_NOT_FOUND, detail |-> "survey_not_found",
           survey |-> <<>>, version |-> <<>>]}
    ELSE {[status |-> HTTP_200_OK, detail |-> "",
           survey |-> <<LoadSurvey(d)>>, version |-> <<>>] : d \in Matching(coll, sid)}

get_survey(p, ids) ==
    /\ pc[p] = "idle"
    /\ \E sid \in ids :
          /\ req' = [req EXCEPT ![p] = [NoReq EXCEPT !.op = "get", !.surveyId = sid]]
          /\ \E r \in GetSurvey(surveys, sid) :
                Reply(p, r.status, r.detail, r.survey, r.version)
    /\ UNCHANGED <<surveys, loc, lastWrite>>
    /\ UNCHANGED respVars

\* Variant: the last match wins.
FirstMatchLast(versions, n) ==
    LET hits == {i \in 1..Len(versions) : versions[i].version = n}
    IN  IF hits = {} THEN <<>>
        ELSE <<versions[CHOOSE i \in hits : \A j \in hits : i >= j]>>

\* next((v for v in versions if v["version"] == version), None)
FirstMatch(versions, n) ==
    LET hits == {i \in 1..Len(versions) : versions[i].version = n}
    IN  IF hits = {} THEN <<>>
        ELSE <<versions[CHOOSE i \in hits : \A j \in hits : i <= j]>>

\* The possible outcomes of get_survey_version(sid, n) on a collection.
GetSurveyVersion(coll, sid, n) ==
    IF Matching(coll, sid) = {}
    THEN {[status |-> HTTP_404_NOT_FOUND, detail |-> "survey_not_found",
           survey |-> <<>>, version |-> <<>>]}
    ELSE {IF FirstMatch(d.versions, n) = <<>>
          THEN [status |-> HTTP_404_NOT_FOUND, detail |-> "version_not_found",
                survey |-> <<>>, version |-> <<>>]
          ELSE [status |-> HTTP_200_OK, detail |-> "",
                survey |-> <<>>, version |-> FirstMatch(d.versions, n)]
          : d \in Matching(coll, sid)}

get_survey_version(p, ids, nums) ==
    /\ pc[p] = "idle"
    /\ \E sid \in ids, n \in nums :
          /\ req' = [req EXCEPT ![p] = [NoReq EXCEPT !.op = "getVersion",
                                        !.surveyId = sid, !.version = n]]
          /\ \E r \in GetSurveyVersion(surveys, sid, n) :
                Reply(p, r.status, r.detail, r.survey, r.version)
    /\ UNCHANGED <<surveys, loc, lastWrite>>
    /\ UNCHANGED respVars

(***************************************************************************)
(* delete_survey, clear_all_surveys                                        *)
(***************************************************************************)
\* Variant: delete_many({}) in place of delete_one.
DeleteSurveyAll(coll, sid) ==
    IF Matching(coll, sid) = {}
    THEN {[status |-> HTTP_404_NOT_FOUND, detail |-> "survey_not_found", coll |-> coll]}
    ELSE {[status |-> HTTP_200_OK, detail |-> "", coll |-> EmptyBag]}

\* The possible outcomes of delete_survey(sid) on a collection: delete_one,
\* then 404 when deleted_count is 0.
DeleteSurvey(coll, sid) ==
    IF Matching(coll, sid) = {}
    THEN {[status |-> HTTP_404_NOT_FOUND, detail |-> "survey_not_found", coll |-> coll]}
    ELSE {[status |-> HTTP_200_OK, detail |-> "", coll |-> RemoveDoc(coll, d)]
          : d \in Matching(coll, sid)}

\* Variant: deleting a survey also deletes its responses.
delete_survey_cascade(p, ids) ==
    /\ pc[p] = "idle"
    /\ \E sid \in ids :
          /\ req' = [req EXCEPT ![p] = [NoReq EXCEPT !.op = "delete", !.surveyId = sid]]
          /\ \E r \in DeleteSurvey(surveys, sid) :
                /\ surveys' = r.coll
                /\ Reply(p, r.status, r.detail, <<>>, <<>>)
                /\ lastWrite' = IF r.status = HTTP_200_OK
                                THEN [lastWrite EXCEPT ![sid] = NoWrite]
                                ELSE lastWrite
          /\ LET Others(d) == d.surveyId # sid
             IN  responses' = SelectSeq(responses, Others)
    /\ UNCHANGED <<loc, issued>>

delete_survey(p, ids) ==
    /\ pc[p] = "idle"
    /\ \E sid \in ids :
          /\ req' = [req EXCEPT ![p] = [NoReq EXCEPT !.op = "delete", !.surveyId = sid]]
          /\ \E r \in DeleteSurvey(surveys, sid) :
                /\ surveys' = r.coll
                /\ Reply(p, r.status, r.detail, <<>>, <<>>)
                /\ lastWrite' = IF r.status = HTTP_200_OK
                                THEN [lastWrite EXCEPT ![sid] = NoWrite]
                                ELSE lastWrite
    /\ UNCHANGED loc
    /\ UNCHANGED respVars

\* delete_many({})
clear_all_surveys(p) ==
    /\ pc[p] = "idle"
    /\ req' = [req EXCEPT ![p] = [NoReq EXCEPT !.op = "clear"]]
    /\ surveys' = EmptyBag
    /\ lastWrite' = [sid \in KnownIds |-> NoWrite]
    /\ Reply(p, HTTP_200_OK, "", <<>>, <<>>)
    /\ UNCHANGED loc
    /\ UNCHANGED respVars

(***************************************************************************)
(* get_storage_stats                                                       *)
(***************************************************************************)
\* Variant: the title of the first version.
SummaryTitleFirst(versions) ==
    IF Len(versions) = 0 THEN "Untitled" ELSE versions[1].config.title

\* survey.versions[-1].config.title if survey.versions else "Untitled"
SummaryTitle(versions) ==
    IF Len(versions) = 0 THEN "Untitled" ELSE versions[Len(versions)].config.title

\* One entry of survey_info (lines 362-370) for a loaded survey.
SurveyInfo(survey) ==
    [surveyId     |-> survey.surveyId,
     versionCount |-> Len(survey.versions),
     createdAt    |-> survey.createdAt,
     title        |-> SummaryTitle(survey.versions)]

\* sum(len(survey.versions) for survey in surveys)
TotalVersions(coll) ==
    LET RECURSIVE Sum(_)
        Sum(S) == IF S = {} THEN 0
                  ELSE LET d == CHOOSE x \in S : TRUE
                       IN  CopiesIn(d, coll) * Len(LoadSurvey(d).versions) + Sum(S \ {d})
    IN  Sum(BagToSet(coll))

\* The body of StorageStatsResponse; the summaries are kept as a set, the
\* store giving no order, and the byte size of the JSON dump is left out.
StorageStats(coll) ==
    [totalSurveys  |-> BagCardinality(coll),
     totalVersions |-> TotalVersions(coll),
     surveys       |-> {SurveyInfo(LoadSurvey(d)) : d \in BagToSet(coll)}]

get_storage_stats(p) ==
    /\ pc[p] = "idle"
    /\ req' = [req EXCEPT ![p] = [NoReq EXCEPT !.op = "stats"]]
    /\ ReplyData(p, HTTP_200_OK, "", <<StorageStats(surveys)>>)
    /\ UNCHANGED <<surveys, loc, lastWrite>>
    /\ UNCHANGED respVars

(***************************************************************************)
(* The responses collection.                                               *)
(***************************************************************************)
\* Most responses a run of the model stores.
MaxResponses == 2

\* str(uuid.uuid4()) for the n-th value handed out: values never repeat.
Uuid4(n) == "r" \o ToString(n)

\* response_doc of lines 452-460; respondentInfo and completionTime are the
\* request's optional fields, None when absent.
ResponseDoc(response_id, request, now) ==
    [responseId     |-> response_id,
     surveyId       |-> request.surveyId,
     versionId      |-> request.versionId,
     respondentInfo |-> request.respondentInfo,
     answers        |-> request.answers,
     submittedAt    |-> now,
     completionTime |-> request.completionTime]

\* find({"surveyId": sid}).to_list(): the matching documents in the order
\* of the collection.
RECURSIVE FindResponses(_, _)
FindResponses(coll, sid) ==
    IF Len(coll) = 0 THEN <<>>
    ELSE (IF coll[1].surveyId = sid THEN <<coll[1]>> ELSE <<>>)
         \o FindResponses(Tail(coll), sid)

\* The inputs of the responses handlers.
RespIds == {"1000", "1001"}
MissingId == "9999"
SubmitIds == RespIds \cup {MissingId}
SubmitVersionIds == {"1000v1", "no-such-version"}
SubmitAnswers == {"yes"}
RespVersionLists == { <<rvA>> }
\* The readings of datetime.utcnow() tried for submittedAt.
SubmitTimes == {0}

(***************************************************************************)
(* submit_survey_response                                                  *)
(***************************************************************************)
\* A POST /responses/ request arrives.
submit_arrive(p, ids) ==
    /\ pc[p] = "idle"
    /\ issued < MaxResponses
    /\ \E sid \in ids, vid \in SubmitVersionIds, ans \in SubmitAnswers :
          /\ req' = [req EXCEPT ![p] = [op |-> "submit", surveyId |-> sid,
                                        versionId |-> vid, answers |-> ans,
                                        respondentInfo |-> NoneStr,
                                        completionTime |-> NoneStr]]
          /\ loc' = [loc EXCEPT ![p] = [NoLoc EXCEPT !.survey_id = sid]]
    /\ pc' = [pc EXCEPT ![p] = "check"]
    /\ UNCHANGED <<surveys, resp, lastWrite>>
    /\ UNCHANGED respVars

\* Variant: the response is accepted whether or not the survey exists.
submit_find_nocheck(p) ==
    /\ pc[p] = "check"
    /\ req[p].op = "submit"
    /\ loc' = [loc EXCEPT ![p].found = TRUE]
    /\ pc' = [pc EXCEPT ![p] = "insert"]
    /\ UNCHANGED <<surveys, req, resp, lastWrite>>
    /\ UNCHANGED respVars

\* Lines 439-446: find_one on surveys, 404 when there is no document.
submit_find(p) ==
    /\ pc[p] = "check"
    /\ req[p].op = "submit"
    /\ IF Matching(surveys, req[p].surveyId) = {}
       THEN /\ Reply(p, HTTP_404_NOT_FOUND, "survey_not_found", <<>>, <<>>)
            /\ UNCHANGED loc
       ELSE /\ loc' = [loc EXCEPT ![p].found = TRUE]
            /\ pc' = [pc EXCEPT ![p] = "insert"]
            /\ UNCHANGED resp
    /\ UNCHANGED <<surveys, req, lastWrite>>
    /\ UNCHANGED respVars

\* Lines 448-468: build response_doc with a fresh uuid4 and insert_one.
submit_insert(p) ==
    /\ pc[p] = "insert"
    /\ req[p].op = "submit"
    /\ issued < MaxResponses
    /\ \E now \in SubmitTimes :
          LET response_id == Uuid4(issued + 1)
          IN  /\ responses' = Append(responses, ResponseDoc(response_id, req[p], now))
              /\ issued' = issued + 1
              /\ ReplyData(p, HTTP_200_OK, "", <<response_id>>)
    /\ UNCHANGED <<surveys, req, loc, lastWrite>>

(***************************************************************************)
(* get_survey_responses                                                    *)
(***************************************************************************)
\* The fields of SurveyResponsesListResponse (models.py), all required.
ListResponseFields == {"success", "responses", "total"}

\* The keyword arguments the handler passes (lines 500-504).
ListResponseArgs == {"success", "responses", "count"}

\* Pydantic validation of the response model: every required field must be
\* supplied; a keyword that is not a field is ignored.
ListResponseValid(args) == ListResponseFields \subseteq args

\* GET /responses/{survey_id}: find, build the list, build the response
\* model; any exception becomes a 500.
get_survey_responses(p, ids) ==
    /\ pc[p] = "idle"
    /\ \E sid \in ids :
          /\ req' = [req EXCEPT ![p] = [NoReq EXCEPT !.op = "list", !.surveyId = sid]]
          /\ LET found == FindResponses(responses, sid)
             IN  IF ListResponseValid(ListResponseArgs)
                 THEN ReplyData(p, HTTP_200_OK, "",
                                <<[responses |-> found, count |-> Len(found)]>>)
                 ELSE ReplyData(p, HTTP_500_INTERNAL_SERVER_ERROR, "error", <<>>)
    /\ UNCHANGED <<surveys, loc, lastWrite>>
    /\ UNCHANGED respVars

(***************************************************************************)
(* analyze_historical_surveys                                              *)
(***************************************************************************)
MaxAnalyzeIds == 5

\* The query string survey_ids is a sequence of pieces: "," , " " or a run
\* of other characters.
RECURSIVE SplitComma(_)
SplitComma(str) ==
    IF \A i \in 1..Len(str) : str[i] # ","
    THEN <<str>>
    ELSE LET i == CHOOSE k \in 1..Len(str) :
                     str[k] = "," /\ \A j \in 1..(k - 1) : str[j] # ","
         IN  <<SubSeq(str, 1, i - 1)>> \o SplitComma(SubSeq(str, i + 1, Len(str)))

\* str.strip() for the blanks the model has.
RECURSIVE Strip(_)
Strip(str) ==
    IF Len(str) = 0 THEN str
    ELSE IF str[1] = " " THEN Strip(Tail(str))
    ELSE IF str[Len(str)] = " " THEN Strip(SubSeq(str, 1, Len(str) - 1))
    ELSE str

\* The pieces of a segment put together as one string.
RECURSIVE Join(_)
Join(str) == IF Len(str) = 0 THEN "" ELSE str[1] \o Join(Tail(str))

RECURSIVE DropEmpty(_)
DropEmpty(segs) ==
    IF Len(segs) = 0 THEN <<>>
    ELSE (IF Len(Strip(segs[1])) = 0 THEN <<>> ELSE <<Join(Strip(segs[1]))>>)
         \o DropEmpty(Tail(segs))

\* Variant: empty entries are kept.
ParseIdListKeepEmpty(survey_ids) ==
    [i \in 1..Len(SplitComma(survey_ids)) |-> Join(Strip(SplitComma(survey_ids)[i]))]

\* Line 521: [sid.strip() for sid in survey_ids.split(",") if sid.strip()]
ParseIdList(survey_ids) == DropEmpty(SplitComma(survey_ids))

\* The query strings tried.
AnalyzeQueries ==
    { <<>>,
      <<",", " ", ",">>,
      <<"1000">>,
      <<MissingId>>,
      <<" ", "1001", " ", ",", ",", "1000", ",">>,
      <<"1000", ",", MissingId, ",", "1001">>,
      <<"1000", ",", "1000", ",", MissingId, ",", "1001", ",", "1000">>,
      <<MissingId, ",", "1000", ",", "1001", ",", "1000", ",", "1001", ",", "1000">>,
      <<MissingId, ",", ",", "8888", ",", "7777", ",", "6666", ",", "5555", ",", "4444">> }

\* Lines 520-537: parse the id list and validate its length; no store call
\* has been made when a 400 is raised.
analyze_arrive(p, queries) ==
    /\ pc[p] = "idle"
    /\ \E q \in queries :
          LET id_list == ParseIdList(q)
          IN  /\ req' = [req EXCEPT ![p] = [NoReq EXCEPT !.op = "analyze", !.versions = q]]
              /\ loc' = [loc EXCEPT ![p] = [id_list |-> id_list, idx |-> 1,
                                            result |-> <<>>, survey_doc |-> <<>>]]
              /\ IF Len(id_list) = 0
                 THEN ReplyData(p, HTTP_400_BAD_REQUEST, "no_ids", <<>>)
                 ELSE IF Len(id_list) > MaxAnalyzeIds
                 THEN ReplyData(p, HTTP_400_BAD_REQUEST, "too_many_ids", <<>>)
                 ELSE /\ pc' = [pc EXCEPT ![p] = "survey"]
                      /\ UNCHANGED resp
    /\ UNCHANGED <<surveys, lastWrite>>
    /\ UNCHANGED respVars

\* The end of one iteration of the loop of lines 545-564 with the result
\* list so far: the next iteration, or lines 566-576 after the last one.
AnalyzeAdvance(p, result) ==
    IF loc[p].idx < Len(loc[p].id_list)
    THEN /\ loc' = [loc EXCEPT ![p].idx = loc[p].idx + 1, ![p].result = result,
                               ![p].survey_doc = <<>>]
         /\ pc' = [pc EXCEPT ![p] = "survey"]
         /\ UNCHANGED resp
    ELSE /\ loc' = [loc EXCEPT ![p].result = result, ![p].survey_doc = <<>>]
         /\ IF Len(result) = 0
            THEN ReplyData(p, HTTP_404_NOT_FOUND, "none_found", <<>>)
            ELSE ReplyData(p, HTTP_200_OK, "",
                           <<[data |-> result, count |-> Len(result)]>>)

\* Variant: a missing survey ends the request.
analyze_survey_strict(p) ==
    /\ pc[p] = "survey"
    /\ req[p].op = "analyze"
    /\ LET ds == Matching(surveys, loc[p].id_list[loc[p].idx])
       IN  IF ds = {}
           THEN /\ ReplyData(p, HTTP_404_NOT_FOUND, "none_found", <<>>)
                /\ UNCHANGED loc
           ELSE \E d \in ds :
                   /\ loc' = [loc EXCEPT ![p].survey_doc = <<d>>]
                   /\ pc' = [pc EXCEPT ![p] = "responses"]
                   /\ UNCHANGED resp
    /\ UNCHANGED <<surveys, req, lastWrite>>
    /\ UNCHANGED respVars

\* Lines 547-554: find_one for the current id; a missing survey is skipped.
analyze_survey(p) ==
    /\ pc[p] = "survey"
    /\ req[p].op = "analyze"
    /\ LET ds == Matching(surveys, loc[p].id_list[loc[p].idx])
       IN  IF ds = {}
           THEN AnalyzeAdvance(p, loc[p].result)
           ELSE \E d \in ds :
                   /\ loc' = [loc EXCEPT ![p].survey_doc = <<d>>]
                   /\ pc' = [pc EXCEPT ![p] = "responses"]
                   /\ UNCHANGED resp
    /\ UNCHANGED <<surveys, req, lastWrite>>
    /\ UNCHANGED respVars

\* Lines 556-564: find the responses of the current id and append the
\* bundle.
analyze_responses(p) ==
    /\ pc[p] = "responses"
    /\ req[p].op = "analyze"
    /\ LET survey_id == loc[p].id_list[loc[p].idx]
           bundle == [survey    |-> LoadSurvey(loc[p].survey_doc[1]),
                      responses |-> FindResponses(responses, survey_id)]
       IN  AnalyzeAdvance(p, Append(loc[p].result, bundle))
    /\ UNCHANGED <<surveys, req, lastWrite>>
    /\ UNCHANGED respVars

(***************************************************************************)
(* search_surveys                                                          *)
(***************************************************************************)
\* to_list(length=100)
SearchLimit == 100

\* The characters of a survey id: the decimal digits of a generated or
\* numeric id, and the letters and digits of LetterId.
IdChars(sid) ==
    IF sid = LetterId THEN <<"A", "b", "1", "0">>
    ELSE LET n == CHOOSE k \in GenIdLo..GenIdHi : ToString(k) = sid
         IN  <<ToString(n \div 1000), ToString((n \div 100) % 10),
               ToString((n \div 10) % 10), ToString(n % 10)>>

\* Case folding of "$options": "i" for the letters the model has.
Fold(c) == CASE c = "A" -> "a" [] c = "B" -> "b" [] OTHER -> c

\* The query is compiled as a regular expression: a pattern with an
\* unbalanced parenthesis does not compile.
RegexCompiles(query) == \A i \in 1..Len(query) : query[i] \notin {"(", ")"}

\* One pattern character against one character of the id: "." matches any
\* character, any other character matches itself, ignoring case.
RegexCharMatches(pc_, c) == pc_ = "." \/ Fold(pc_) = Fold(c)

\* {"$regex": query, "$options": "i"}: the pattern matches somewhere in the
\* id (it is not anchored).
RegexSearch(query, chars) ==
    \E off \in 0..(Len(chars) - Len(query)) :
       \A i \in 1..Len(query) : RegexCharMatches(query[i], chars[off + i])

\* The sequences a find(...).sort("createdAt", -1) can deliver for a set of
\* documents: every order with createdAt non-increasing.
SortedByCreatedAtDesc(docs) ==
    { sq \in [1..Cardinality(docs) -> docs] :
         /\ \A i, j \in 1..Cardinality(docs) : i # j => sq[i] # sq[j]
         /\ \A i \in 1..(Cardinality(docs) - 1) : sq[i].createdAt >= sq[i + 1].createdAt }

\* cursor.to_list(length=n): the first n documents.
ToList(sq, n) == SubSeq(sq, 1, IF Len(sq) < n THEN Len(sq) ELSE n)

\* The query strings tried, as sequences of characters.
SearchQueries ==
    { <<"0">>, <<"0", "0">>, <<"a", "B">>, <<"9">>, <<"1", "0", "0", "0", "0">>,
      <<".">>, <<"1", ".", "0">>, <<"(">> }

SearchCreateIds == {"1000", LetterId}

\* GET /search/{query}: find with the regex, sort, to_list(100); any
\* exception becomes a 500.
search_surveys(p, queries) ==
    /\ pc[p] = "idle"
    /\ \E query \in queries :
          /\ req' = [req EXCEPT ![p] = [NoReq EXCEPT !.op = "search", !.versions = query]]
          /\ IF ~RegexCompiles(query)
             THEN ReplyData(p, HTTP_500_INTERNAL_SERVER_ERROR, "error", <<>>)
             ELSE LET docs == {d \in BagToSet(surveys) :
                                  RegexSearch(query, IdChars(d.surveyId))}
                  IN  \E sq \in SortedByCreatedAtDesc(docs) :
                         LET found == ToList(sq, SearchLimit)
                         IN  ReplyData(p, HTTP_200_OK, "",
                                       <<[surveys |-> [i \in 1..Len(found) |-> LoadSurvey(found[i])],
                                          total   |-> Len(found)]>>)
    /\ UNCHANGED <<surveys, loc, lastWrite>>
    /\ UNCHANGED respVars

(***************************************************************************)
(* get_all_surveys                                                         *)
(***************************************************************************)
\* limit: int = 100
DefaultLimit == 100

\* The values of skip and limit tried.
Skips == {0, 1}
Limits == {1, DefaultLimit}

\* cursor.skip(skip).limit(limit).to_list(length=limit) for a positive limit.
SkipLimit(sq, skip, limit) ==
    SubSeq(sq, skip + 1, IF Len(sq) < skip + limit THEN Len(sq) ELSE skip + limit)

\* GET /: the first store call, find({}) sorted by createdAt descending with
\* skip and limit.
get_all_surveys(p, skips, limits) ==
    /\ pc[p] = "idle"
    /\ \E skip \in skips, limit \in limits :
          /\ req' = [req EXCEPT ![p] = [NoReq EXCEPT !.op = "getAll",
                                                     !.versions = <<skip, limit>>]]
          /\ \E sq \in SortedByCreatedAtDesc(BagToSet(surveys)) :
                LET surveys_docs == SkipLimit(sq, skip, limit)
                IN  loc' = [loc EXCEPT ![p] =
                               [surveys_docs |-> [i \in 1..Len(surveys_docs)
                                                    |-> LoadSurvey(surveys_docs[i])]]]
    /\ pc' = [pc EXCEPT ![p] = "count"]
    /\ UNCHANGED <<surveys, resp, lastWrite>>
    /\ UNCHANGED respVars

\* The second store call, count_documents({}), and the response.
get_all_count(p) ==
    /\ pc[p] = "count"
    /\ req[p].op = "getAll"
    /\ ReplyData(p, HTTP_200_OK, "",
                 <<[surveys |-> loc[p].surveys_docs, total |-> BagCardinality(surveys)]>>)
    /\ UNCHANGED <<surveys, req, loc, lastWrite>>
    /\ UNCHANGED respVars

(***************************************************************************)
(* export_survey                                                           *)
(***************************************************************************)
\* Variant: the exported document is taken out of the collection.
export_survey_consume(p, ids) ==
    /\ pc[p] = "idle"
    /\ \E sid \in ids :
          /\ req' = [req EXCEPT ![p] = [NoReq EXCEPT !.op = "export", !.surveyId = sid]]
          /\ LET ds == Matching(surveys, sid)
             IN  IF ds = {}
                 THEN /\ ReplyData(p, HTTP_404_NOT_FOUND, "survey_not_found", <<>>)
                      /\ UNCHANGED surveys
                 ELSE \E d \in ds :
                         /\ ReplyData(p, HTTP_200_OK, "", <<d>>)
                         /\ surveys' = RemoveDoc(surveys, d)
    /\ UNCHANGED <<loc, lastWrite>>
    /\ UNCHANGED respVars

\* GET /{survey_id}/export: find_one, 404 when there is no document,
\* otherwise the document as a JSON attachment.
export_survey(p, ids) ==
    /\ pc[p] = "idle"
    /\ \E sid \in ids :
          /\ req' = [req EXCEPT ![p] = [NoReq EXCEPT !.op = "export", !.surveyId = sid]]
          /\ LET ds == Matching(surveys, sid)
             IN  IF ds = {}
                 THEN ReplyData(p, HTTP_404_NOT_FOUND, "survey_not_found", <<>>)
                 ELSE \E d \in ds : ReplyData(p, HTTP_200_OK, "", <<d>>)
    /\ UNCHANGED <<surveys, loc, lastWrite>>
    /\ UNCHANGED respVars

\* The response has been delivered; the slot serves the next request.
Return(p) ==
    /\ pc[p] = "done"
    /\ pc' = [pc EXCEPT ![p] = "idle"]
    /\ req' = [req EXCEPT ![p] = NoReq]
    /\ loc' = [loc EXCEPT ![p] = NoLoc]
    /\ resp' = [resp EXCEPT ![p] = NoResp]
    /\ UNCHANGED <<surveys, lastWrite>>
    /\ UNCHANGED respVars

(***************************************************************************)
(* Specifications.                                                         *)
(* Spec: requests are served one at a time (a single request slot).        *)
(* SpecConc: two request slots whose store calls interleave.               *)
(***************************************************************************)
SeqProcs == {1}

Next ==
    \E p \in SeqProcs :
       \/ create_arrive(p, CreateIds, VersionLists)
       \/ create_generate(p, generate_survey_id)
       \/ create_find(p)
       \/ create_replace(p)
       \/ create_insert(p)
       \/ update_arrive(p, AllIds, VersionLists)
       \/ update_find(p)
       \/ update_replace(p)
       \/ get_survey(p, AllIds)
       \/ get_survey_version(p, AllIds, VersionNumbers)
       \/ delete_survey(p, AllIds)
       \/ clear_all_surveys(p)
       \/ get_storage_stats(p)
       \/ Return(p)

Spec == Init /\ [][Next]_vars

NextConc ==
    \E p \in Procs :
       \/ create_arrive(p, ConcCreateIds, ConcVersionLists)
       \/ create_generate(p, ConcGenIds)
       \/ create_find(p)
       \/ create_replace(p)
       \/ create_insert(p)
       \/ update_arrive(p, SuppliedIds, ConcVersionLists)
       \/ update_find(p)
       \/ update_replace(p)
       \/ get_survey(p, SuppliedIds)
       \/ get_survey_version(p, SuppliedIds, ConcVersionNumbers)
       \/ delete_survey(p, SuppliedIds)
       \/ clear_all_surveys(p)
       \/ Return(p)

SpecConc == Init /\ [][NextConc]_vars

\* SpecResp: one request slot serving the responses handlers together with
\* the survey handlers that change what they read.
NextResp ==
    \E p \in SeqProcs :
       \/ create_arrive(p, RespIds, RespVersionLists)
       \/ create_find(p)
       \/ create_replace(p)
       \/ create_insert(p)
       \/ update_arrive(p, RespIds, RespVersionLists)
       \/ update_find(p)
       \/ update_replace(p)
       \/ delete_survey(p, RespIds)
       \/ clear_all_surveys(p)
       \/ submit_arrive(p, SubmitIds)
       \/ submit_find(p)
       \/ submit_insert(p)
       \/ get_survey_responses(p, SubmitIds)
       \/ analyze_arrive(p, AnalyzeQueries)
       \/ analyze_survey(p)
       \/ analyze_responses(p)
       \/ Return(p)

SpecResp == Init /\ [][NextResp]_vars

\* SpecSubmitConc: two request slots; submits interleave with the creation
\* and the removal of the survey they name.
NextSubmitConc ==
    \E p \in Procs :
       \/ create_arrive(p, SuppliedIds, RespVersionLists)
       \/ create_find(p)
       \/ create_replace(p)
       \/ create_insert(p)
       \/ delete_survey(p, SuppliedIds)
       \/ clear_all_surveys(p)
       \/ submit_arrive(p, SuppliedIds)
       \/ submit_find(p)
       \/ submit_insert(p)
       \/ Return(p)

SpecSubmitConc == Init /\ [][NextSubmitConc]_vars

\* SpecSearch: one request slot; surveys with numeric and lettered ids are
\* created, deleted and searched.
NextSearch ==
    \E p \in SeqProcs :
       \/ create_arrive(p, SearchCreateIds \cup {NoneStr}, RespVersionLists)
       \/ create_generate(p, generate_survey_id)
       \/ create_find(p)
       \/ create_replace(p)
       \/ create_insert(p)
       \/ delete_survey(p, SearchCreateIds)
       \/ search_surveys(p, SearchQueries)
       \/ Return(p)

SpecSearch == Init /\ [][NextSearch]_vars

\* SpecFrame: one request slot serving every handler of the router.
FrameQueries == { <<"0">>, <<".">>, <<"(">> }
FrameAnalyzeQueries == { <<>>, <<MissingId>>, <<"1000", ",", MissingId, ",", "1001">> }

NextFrame ==
    \E p \in SeqProcs :
       \/ create_arrive(p, RespIds, RespVersionLists)
       \/ create_find(p)
       \/ create_replace(p)
       \/ create_insert(p)
       \/ update_arrive(p, SubmitIds, RespVersionLists)
       \/ update_find(p)
       \/ update_replace(p)
       \/ delete_survey(p, SubmitIds)
       \/ clear_all_surveys(p)
       \/ get_survey(p, SubmitIds)
       \/ get_survey_version(p, SubmitIds, VersionNumbers)
       \/ search_surveys(p, FrameQueries)
       \/ get_all_surveys(p, Skips, Limits)
       \/ get_all_count(p)
       \/ get_storage_stats(p)
       \/ export_survey(p, SubmitIds)
       \/ submit_arrive(p, SubmitIds)
       \/ submit_find(p)
       \/ submit_insert(p)
       \/ get_survey_responses(p, SubmitIds)
       \/ analyze_arrive(p, FrameAnalyzeQueries)
       \/ analyze_survey(p)
       \/ analyze_responses(p)
       \/ Return(p)

SpecFrame == Init /\ [][NextFrame]_vars

\* SpecGen: one request slot creating surveys with generated ids and
\* deleting them.  Every started handler step is eventually taken, and the
\* generator is fair: an id that could be drawn again and again is drawn.
NextGen ==
    \E p \in SeqProcs :
       \/ create_arrive(p, {NoneStr, ""}, ConcVersionLists)
       \/ create_generate(p, generate_survey_id)
       \/ create_find(p)
       \/ create_replace(p)
       \/ create_insert(p)
       \/ delete_survey(p, generate_survey_id)
       \/ Return(p)

FairGen ==
    \A p \in SeqProcs :
       /\ WF_vars(create_find(p))
       /\ WF_vars(create_replace(p))
       /\ WF_vars(create_insert(p))
       /\ \A g \in generate_survey_id : SF_vars(create_generate(p, {g}))

SpecGen == Init /\ [][NextGen]_vars /\ FairGen

(***************************************************************************)
(* Properties.                                                             *)
(***************************************************************************)
NotFoundSurvey ==
    [status |-> HTTP_404_NOT_FOUND, detail |-> "survey_not_found",
     survey |-> <<>>, version |-> <<>>]

\* Every document whose surveyId is not sid is in coll2 as often as in coll1.
OthersUnchanged(coll1, coll2, sid) ==
    \A d \in BagToSet(coll1) \cup BagToSet(coll2) :
        d.surveyId # sid => CopiesIn(d, coll2) = CopiesIn(d, coll1)

\* The survey that get returns for what was translated from the versions vs.
SurveyAsRead(sid, created_at, vs) ==
    [surveyId  |-> sid,
     createdAt |-> created_at,
     versions  |-> [i \in 1..Len(vs) |-> LoadVersion(DumpVersion(StoredVersion(sid, vs[i])))]]

\* C1: a create on an id whose document was last written by a create
\* replaces the versions: get then returns exactly the versions translated
\* from the second request, with the createdAt the first create had set.
C1_CreateCreateReplaces ==
    \A p \in Procs :
        ( /\ pc[p] = "done"
          /\ req[p].op = "create"
          /\ resp[p].status = HTTP_201_CREATED
          /\ loc[p].prev.op = "create" )
        => GetSurvey(surveys, loc[p].survey_id) =
              {[status |-> HTTP_200_OK, detail |-> "",
                survey |-> <<SurveyAsRead(loc[p].survey_id, loc[p].prev.createdAt,
                                          req[p].versions)>>,
                version |-> <<>>]}

C1_Witness ==
    /\ pc[1] = "done"
    /\ req[1].op = "create"
    /\ resp[1].status = HTTP_201_CREATED
    /\ loc[1].prev.op = "create"
    /\ req[1].versions = <<rvA>>
    /\ loc[1].prev.createdAt = 1

\* C2: an update of an existing survey with translatable versions succeeds,
\* leaves exactly one document for the id, holding the translation of the
\* submitted versions with the surveyId and createdAt it had before, and
\* changes no other document.
C2_UpdateReplaces ==
    [][\A p \in Procs :
          ( /\ pc[p] = "write"
            /\ req[p].op = "update"
            /\ pc'[p] = "done"
            /\ TranslateOk(req[p].versions)
            /\ Matching(surveys, loc[p].survey_id) # {} )
          => LET sid == loc[p].survey_id
             IN  /\ resp'[p].status = HTTP_200_OK
                 /\ CountOf(surveys', sid) = 1
                 /\ Matching(surveys', sid) =
                       { [surveyId  |-> d.surveyId,
                          createdAt |-> d.createdAt,
                          versions  |-> [i \in 1..Len(req[p].versions) |->
                              DumpVersion(StoredVersion(sid, req[p].versions[i]))]]
                         : d \in Matching(surveys, sid) }
                 /\ OthersUnchanged(surveys, surveys', sid)]_vars

C2_Witness ==
    /\ pc[1] = "done"
    /\ req[1].op = "update"
    /\ resp[1].status = HTTP_200_OK
    /\ loc[1].matched = 1
    /\ req[1].versions = <<rvC, rvA, rvB>>
    /\ \E d \in BagToSet(surveys) : d.surveyId # loc[1].survey_id

\* C3: while a document exists for a surveyId, no step changes its createdAt.
C3_CreatedAtNeverChanges ==
    [][\A sid \in AllIds :
          \A d \in Matching(surveys, sid), e \in Matching(surveys', sid) :
              e.createdAt = d.createdAt]_vars

\* C4: the existence check of an update that finds no document answers
\* NotFound and writes nothing, whatever versions were submitted; get on
\* the id is still NotFound.
C4_UpdateMissingNotFound ==
    [][\A p \in Procs :
          ( /\ pc[p] = "check"
            /\ req[p].op = "update"
            /\ pc'[p] # "check"
            /\ Matching(surveys, loc[p].survey_id) = {} )
          => /\ pc'[p] = "done"
             /\ resp'[p].status = HTTP_404_NOT_FOUND
             /\ resp'[p].detail = "survey_not_found"
             /\ surveys' = surveys
             /\ GetSurvey(surveys', loc[p].survey_id) = {NotFoundSurvey}]_vars

C4_Witness ==
    /\ pc[1] = "done"
    /\ req[1].op = "update"
    /\ resp[1].status = HTTP_404_NOT_FOUND
    /\ ~TranslateOk(req[1].versions)
    /\ Matching(surveys, req[1].surveyId) = {}
    /\ surveys # EmptyBag

\* C5: an update whose replace matched no document (the survey was deleted
\* after the existence check) answers NotFound, never success.
C5_UpdateRaceNotFound ==
    \A p \in Procs :
        (pc[p] = "done" /\ req[p].op = "update" /\ loc[p].matched = 0)
        => resp[p].status = HTTP_404_NOT_FOUND

\* C6: every surveyId has at most one document in the collection.
C6_UniqueSurveyId ==
    \A d \in BagToSet(surveys) : CountOf(surveys, d.surveyId) = 1

C6_Witness ==
    /\ pc[1] = "done" /\ pc[2] = "done"
    /\ req[1].op = "create" /\ req[2].op = "create"
    /\ loc[1].survey_id = loc[2].survey_id
    /\ ~loc[1].found /\ ~loc[2].found
    /\ resp[1].status = HTTP_201_CREATED /\ resp[2].status = HTTP_201_CREATED
    /\ CountOf(surveys, loc[1].survey_id) = 1

\* C7: every stored version has versionId = surveyId + "v" + the decimal
\* rendering of its stored integer version.
C7_VersionIdDerived ==
    \A d \in BagToSet(surveys) :
        \A i \in 1..Len(d.versions) :
            d.versions[i].versionId =
                d.surveyId \o "v" \o ToString(d.versions[i].version)

C9_DeleteThenNotFound ==
    [][\A p \in Procs :
          ( /\ pc[p] = "idle"
            /\ pc'[p] = "done"
            /\ req'[p].op = "delete"
            /\ Matching(surveys, req'[p].surveyId) # {} )
          => LET sid == req'[p].surveyId
             IN  /\ resp'[p].status = HTTP_200_OK
                 /\ Matching(surveys', sid) = {}
                 /\ OthersUnchanged(surveys, surveys', sid)
                 /\ GetSurvey(surveys', sid) = {NotFoundSurvey}
                 /\ \A r \in DeleteSurvey(surveys', sid) :
                       r.status = HTTP_404_NOT_FOUND /\ r.coll = surveys']_vars

C9_Witness ==
    /\ pc[1] = "done"
    /\ req[1].op = "delete"
    /\ resp[1].status = HTTP_200_OK
    /\ surveys # EmptyBag

\* C10: getVersion answers survey-not-found when the survey is absent,
\* version-not-found when no stored entry has the number, and otherwise the
\* earliest entry in stored order that has the number.
C10_GetVersionFirstMatch ==
    \A p \in Procs :
        (pc[p] = "done" /\ req[p].op = "getVersion")
        => LET ds == Matching(surveys, req[p].surveyId)
               n == req[p].version
           IN  IF ds = {}
               THEN resp[p].status = HTTP_404_NOT_FOUND
                    /\ resp[p].detail = "survey_not_found"
               ELSE \A d \in ds :
                      IF \A i \in 1..Len(d.versions) : d.versions[i].version # n
                      THEN resp[p].status = HTTP_404_NOT_FOUND
                           /\ resp[p].detail = "version_not_found"
                      ELSE /\ resp[p].status = HTTP_200_OK
                           /\ \E i \in 1..Len(d.versions) :
                                 /\ d.versions[i].version = n
                                 /\ \A j \in 1..(i - 1) : d.versions[j].version # n
                                 /\ resp[p].version = <<d.versions[i]>>

C10_Witness ==
    /\ pc[1] = "done"
    /\ req[1].op = "getVersion"
    /\ resp[1].status = HTTP_200_OK
    /\ \E d \in Matching(surveys, req[1].surveyId) :
          \E i, j \in 1..Len(d.versions) :
              /\ i < j
              /\ d.versions[i].version = req[1].version
              /\ d.versions[j].version = req[1].version
              /\ d.versions[i] # d.versions[j]
              /\ resp[1].version = <<d.versions[i]>>

\* C16: a create or update whose versions list has an entry that fails
\* translation, at any position, answers with an error and leaves the
\* surveys collection exactly as it was.
C16_BadVersionWritesNothing ==
    [][\A p \in Procs :
          ( /\ pc[p] = "write"
            /\ req[p].op \in {"create", "update"}
            /\ pc'[p] # "write"
            /\ \E i \in 1..Len(req[p].versions) : ~Translatable(req[p].versions[i]) )
          => /\ pc'[p] = "done"
             /\ resp'[p].status = HTTP_500_INTERNAL_SERVER_ERROR
             /\ surveys' = surveys]_vars

C16_Witness ==
    /\ pc[1] = "done"
    /\ req[1].op = "update"
    /\ req[1].versions = <<rvA, rvBadCfg>>
    /\ resp[1].status = HTTP_500_INTERNAL_SERVER_ERROR
    /\ \E d \in Matching(surveys, req[1].surveyId) : Len(d.versions) = 3

\* C17: the storage statistics give the number of survey documents, the sum
\* of the lengths of their versions, and one summary per survey with its
\* versions length and the title of its last stored version, "Untitled"
\* when it has none.
C17_StorageStats ==
    \A p \in Procs :
        (pc[p] = "done" /\ req[p].op = "stats")
        => LET st == resp[p].data[1]
               docs == BagToSet(surveys)
               RECURSIVE Lens(_)
               Lens(S) == IF S = {} THEN 0
                          ELSE LET d == CHOOSE x \in S : TRUE
                               IN  Len(d.versions) + Lens(S \ {d})
           IN  /\ resp[p].status = HTTP_200_OK
               /\ st.totalSurveys = Cardinality({sid \in AllIds : Matching(surveys, sid) # {}})
               /\ st.totalVersions = Lens(docs)
               /\ Cardinality(st.surveys) = st.totalSurveys
               /\ \A d \in docs :
                     \E info \in st.surveys :
                        /\ info.surveyId = d.surveyId
                        /\ info.versionCount = Len(d.versions)
                        /\ info.title = IF d.versions = <<>> THEN "Untitled"
                                        ELSE d.versions[Len(d.versions)].config.title
               /\ (surveys = EmptyBag =>
                      st.totalSurveys = 0 /\ st.totalVersions = 0 /\ st.surveys = {})

C17_Witness ==
    /\ pc[1] = "done"
    /\ req[1].op = "stats"
    /\ resp[1].data[1].totalSurveys = 2
    /\ resp[1].data[1].totalVersions = 3
    /\ \E a, b \in resp[1].data[1].surveys :
          /\ a.title = "Untitled" /\ a.versionCount = 0
          /\ b.title = "B" /\ b.versionCount = 3

\* C19: when a create request that found no document at its existence check
\* completes its write with 201 while another create request for the same
\* id, which also found no document, has inserted its document (still in
\* the store) and reported 201, the write replaces the inserted document: one document is left under the id
\* and it holds the versions of the later writer only.
C19_LostCreate ==
    [][\A p, q \in Procs :
          ( /\ p # q
            /\ pc[p] = "done" /\ req[p].op = "create"
            /\ resp[p].status = HTTP_201_CREATED
            /\ ~loc[p].found /\ loc[p].matched = 0
            /\ pc[q] \in {"write", "insert"} /\ req[q].op = "create"
            /\ ~loc[q].found
            /\ loc[q].survey_id = loc[p].survey_id
            /\ Matching(surveys, loc[p].survey_id) # {}
            /\ pc'[q] = "done" /\ resp'[q].status = HTTP_201_CREATED )
          => /\ loc'[q].matched = 1
             /\ Matching(surveys', loc[p].survey_id)
                   = {model_dump(resp'[q].survey[1])}
             /\ CountOf(surveys', loc[p].survey_id) = 1]_vars

\* Both requests passed the check on an empty store and both succeeded;
\* the store holds the two versions of the second and not the one version
\* of the first.
C19_Witness ==
    /\ pc[1] = "done" /\ pc[2] = "done"
    /\ req[1].op = "create" /\ req[2].op = "create"
    /\ req[1].surveyId = "1000" /\ req[2].surveyId = "1000"
    /\ req[1].versions = <<rvA>> /\ req[2].versions = <<rvC, rvA>>
    /\ ~loc[1].found /\ ~loc[2].found
    /\ resp[1].status = HTTP_201_CREATED /\ resp[2].status = HTTP_201_CREATED
    /\ loc[1].matched = 0 /\ loc[2].matched = 1
    /\ \A d \in Matching(surveys, "1000") : Len(d.versions) = 2
    /\ Len(resp[1].survey[1].versions) = 1

\* The responseIds in a collection of responses.
ResponseIds(coll) == {coll[i].responseId : i \in 1..Len(coll)}

\* C11: a submit whose existence check finds no survey answers 404 and
\* changes neither collection; a submit that found the survey adds one
\* response at its insert, carrying the request's surveyId, versionId and
\* answers and a responseId no stored response has, answers with that id,
\* and changes no stored response and no survey, whatever the versionId.
C11_Submit ==
    [][\A p \in Procs :
          /\ ( /\ pc[p] = "check" /\ req[p].op = "submit" /\ pc'[p] # "check"
               /\ Matching(surveys, req[p].surveyId) = {} )
             => /\ pc'[p] = "done"
                /\ resp'[p].status = HTTP_404_NOT_FOUND
                /\ responses' = responses
                /\ surveys' = surveys
          /\ ( /\ pc[p] = "check" /\ req[p].op = "submit" /\ pc'[p] # "check"
               /\ Matching(surveys, req[p].surveyId) # {} )
             => /\ pc'[p] = "insert"
                /\ responses' = responses
                /\ surveys' = surveys
          /\ ( pc[p] = "insert" /\ req[p].op = "submit" /\ pc'[p] # "insert" )
             => /\ pc'[p] = "done"
                /\ resp'[p].status = HTTP_200_OK
                /\ Len(responses') = Len(responses) + 1
                /\ SubSeq(responses', 1, Len(responses)) = responses
                /\ LET r == responses'[Len(responses')]
                   IN  /\ r.surveyId = req[p].surveyId
                       /\ r.versionId = req[p].versionId
                       /\ r.answers = req[p].answers
                       /\ r.responseId \notin ResponseIds(responses)
                       /\ resp'[p].data = <<r.responseId>>
                /\ surveys' = surveys]_vars

\* A response naming a version the survey does not have was stored after an
\* earlier response.
C11_Witness ==
    /\ pc[1] = "done" /\ req[1].op = "submit"
    /\ req[1].versionId = "no-such-version"
    /\ resp[1].status = HTTP_200_OK
    /\ Len(responses) = 2
    /\ responses[2].versionId = "no-such-version"
    /\ responses[2].surveyId = req[1].surveyId
    /\ responses[1].responseId # responses[2].responseId
    /\ \A d \in Matching(surveys, req[1].surveyId) :
          \A i \in 1..Len(d.versions) : d.versions[i].versionId # "no-such-version"

\* C12: a list request answers 200 with the stored responses of the survey
\* id, in the order of the store, and their number.
C12_ListReturnsStored ==
    \A p \in Procs :
       (pc[p] = "done" /\ req[p].op = "list")
       => /\ resp[p].status = HTTP_200_OK
          /\ LET OfSurvey(r) == r.surveyId = req[p].surveyId
                 stored == SelectSeq(responses, OfSurvey)
             IN  resp[p].data = <<[responses |-> stored, count |-> Len(stored)]>>

\* C13: no step removes or changes a stored response: the only step that
\* changes the responses collection is the insert of a submit, which appends
\* to it; deletes, clears, creates and updates of surveys leave it as it is.
C13_ResponsesAppendOnly ==
    [][/\ Len(responses') >= Len(responses)
       /\ SubSeq(responses', 1, Len(responses)) = responses
       /\ responses' # responses
          => \E p \in Procs : pc[p] = "insert" /\ req[p].op = "submit"]_vars

\* A survey is inserted under an id for which no document existed, and the
\* store already holds a response with that surveyId: the response of the
\* survey deleted earlier now goes with the new survey.
C13_Witness ==
    /\ pc[1] = "done" /\ req[1].op = "create"
    /\ resp[1].status = HTTP_201_CREATED
    /\ ~loc[1].found /\ loc[1].matched = 0
    /\ \E i \in 1..Len(responses) : responses[i].surveyId = loc[1].survey_id
    /\ Matching(surveys, loc[1].survey_id) # {}

\* C14: an analyze request is answered 400 exactly when its query string has
\* no entry or more than five entries that are non-blank between commas,
\* and the 400 is sent by the first step of the handler, before any store
\* call.
C14_AnalyzeBadRequest ==
    [][\A p \in Procs :
          (pc[p] = "idle" /\ req'[p].op = "analyze")
          => LET q == req'[p].versions
                 IsId(i) == q[i] # "," /\ q[i] # " "
                 StartsEntry(i) ==
                     /\ IsId(i)
                     /\ \A j \in 1..(i - 1) :
                           IsId(j) => \E k \in (j + 1)..(i - 1) : q[k] = ","
                 entries == Cardinality({i \in 1..Len(q) : StartsEntry(i)})
             IN  /\ (entries = 0 \/ entries > 5)
                    <=> (pc'[p] = "done" /\ resp'[p].status = HTTP_400_BAD_REQUEST)
                 /\ (entries \in 1..5) <=> (pc'[p] = "survey")
                 /\ surveys' = surveys /\ responses' = responses]_vars

\* Six ids, none of which has a survey: 400, not 404.
C14_Witness ==
    /\ pc[1] = "done" /\ req[1].op = "analyze"
    /\ Len(loc[1].id_list) = 6
    /\ \A i \in 1..6 : Matching(surveys, loc[1].id_list[i]) = {}
    /\ resp[1].status = HTTP_400_BAD_REQUEST
    /\ loc[1].idx = 1 /\ loc[1].result = <<>>

\* C15: an analyze request with one to five ids answers 404 exactly when no
\* listed id has a survey; otherwise it answers 200 with one bundle per
\* listed id that has a survey, in list order, each with the survey and all
\* stored responses of its id, and with count the number of bundles.
C15_AnalyzeBundles ==
    \A p \in Procs :
       ( /\ pc[p] = "done" /\ req[p].op = "analyze"
         /\ Len(loc[p].id_list) \in 1..5 )
       => LET Resolves(sid) == Matching(surveys, sid) # {}
              resolving == SelectSeq(loc[p].id_list, Resolves)
          IN  /\ resp[p].status \in {HTTP_200_OK, HTTP_404_NOT_FOUND}
              /\ resp[p].status = HTTP_404_NOT_FOUND <=> Len(resolving) = 0
              /\ resp[p].status = HTTP_200_OK
                 => LET body == resp[p].data[1]
                    IN  /\ body.count = Len(resolving)
                        /\ Len(body.data) = Len(resolving)
                        /\ \A i \in 1..Len(resolving) :
                              LET OfSurvey(r) == r.surveyId = resolving[i]
                              IN  /\ body.data[i].survey.surveyId = resolving[i]
                                  /\ model_dump(body.data[i].survey)
                                        \in Matching(surveys, resolving[i])
                                  /\ body.data[i].responses
                                        = SelectSeq(responses, OfSurvey)

\* Three ids, the second without a survey: two bundles in list order, one of
\* them with a stored response.
C15_Witness ==
    /\ pc[1] = "done" /\ req[1].op = "analyze"
    /\ loc[1].id_list = <<"1000", MissingId, "1001">>
    /\ resp[1].status = HTTP_200_OK
    /\ resp[1].data[1].count = 2
    /\ resp[1].data[1].data[1].survey.surveyId = "1000"
    /\ resp[1].data[1].data[2].survey.surveyId = "1001"
    /\ Len(resp[1].data[1].data[2].responses) = 1
    /\ Len(resp[1].data[1].data[1].responses) = 0

\* C20: whenever a response is inserted, the surveys collection holds a
\* document with the response's surveyId at that moment.
C20_SurveyExistsAtInsert ==
    [][responses' # responses
       => Matching(surveys, responses'[Len(responses')].surveyId) # {}]_vars

\* C18: a search answers 200 with the surveys whose id contains the query as
\* a substring, ignoring case, ordered by createdAt descending, at most 100
\* of them; with no such survey it answers 200 with an empty list.
C18_SearchSubstring ==
    \A p \in Procs :
       (pc[p] = "done" /\ req[p].op = "search")
       => LET q == req[p].versions
              Contains(sid) ==
                  LET chars == IdChars(sid)
                  IN  \E off \in 0..(Len(chars) - Len(q)) :
                         \A i \in 1..Len(q) : Fold(q[i]) = Fold(chars[off + i])
              expected == {d \in BagToSet(surveys) : Contains(d.surveyId)}
          IN  /\ resp[p].status = HTTP_200_OK
              /\ LET body == resp[p].data[1]
                 IN  /\ {model_dump(body.surveys[i]) : i \in 1..Len(body.surveys)} = expected
                     /\ Len(body.surveys) = Cardinality(expected)
                     /\ Len(body.surveys) <= 100
                     /\ body.total = Len(body.surveys)
                     /\ \A i \in 1..(Len(body.surveys) - 1) :
                           body.surveys[i].createdAt >= body.surveys[i + 1].createdAt

\* C21: a create request without surveyId (None or ""), served with no other
\* request in between, does not touch the store before its write, and its
\* write, answered 201, stores the survey under a generated id that no stored
\* document has: it adds one document and leaves every stored document as
\* it is.
C21_GeneratedIdIsNew ==
    [][\A p \in SeqProcs :
          (req[p].op = "create" /\ Falsy(req[p].surveyId))
          => /\ pc[p] \in {"gen", "check"} => surveys' = surveys
             /\ ( /\ pc[p] \in {"write", "insert"}
                  /\ pc'[p] = "done"
                  /\ resp'[p].status = HTTP_201_CREATED )
                => /\ loc[p].survey_id \in generate_survey_id
                   /\ resp'[p].survey[1].surveyId = loc[p].survey_id
                   /\ Matching(surveys, loc[p].survey_id) = {}
                   /\ CountOf(surveys', loc[p].survey_id) = 1
                   /\ BagCardinality(surveys') = BagCardinality(surveys) + 1
                   /\ \A d \in BagToSet(surveys) :
                         CopiesIn(d, surveys') = CopiesIn(d, surveys)]_vars

\* A create with the empty string as surveyId was stored under 1001 next to
\* the survey 1000 that was there before.
C21_Witness ==
    /\ pc[1] = "done" /\ req[1].op = "create" /\ req[1].surveyId = ""
    /\ resp[1].status = HTTP_201_CREATED
    /\ loc[1].survey_id = "1001"
    /\ loc[1].matched = 0
    /\ Matching(surveys, "1000") # {}
    /\ BagCardinality(surveys) = 2

\* C22: a create request without surveyId that has entered the generate and
\* check loop eventually returns a response.
C22_CreateReturns ==
    \A p \in SeqProcs :
       (pc[p] = "gen" /\ req[p].op = "create") ~> (pc[p] = "done")

\* C23: every step of a read request (get, getVersion, search, getAll,
\* stats, export, list, analyze) leaves the surveys and the responses
\* collections as they are, whatever the request answers; every step of a
\* create, update, delete or clear request leaves the responses collection
\* as it is.
C23_ReadsChangeNothing ==
    [][\A p \in SeqProcs :
          (<<pc[p], req[p], loc[p], resp[p]>> # <<pc'[p], req'[p], loc'[p], resp'[p]>>)
          => /\ req'[p].op \in {"get", "getVersion", "search", "getAll", "stats",
                                "export", "list", "analyze"}
                => (surveys' = surveys /\ responses' = responses)
             /\ req'[p].op \in {"create", "update", "delete", "clear"}
                => responses' = responses]_vars

\* A search that failed, with documents in both collections.
C23_Witness ==
    /\ pc[1] = "done" /\ req[1].op = "search"
    /\ resp[1].status = HTTP_500_INTERNAL_SERVER_ERROR
    /\ BagCardinality(surveys) = 2
    /\ Len(responses) = 2

====
